---- MODULE Spec2Model ----
(***************************************************************************)
(* Model of the self-update engine of OrganiseTesCours (src/main.py):      *)
(* _compare_versions, _fetch_update_info, _notify_update_on_ui,            *)
(* _download_to_temp, _apply_update_file and start_update_check, together  *)
(* with the Tk interactive loop that runs the callbacks they schedule.     *)
(***************************************************************************)
EXTENDS Integers, Sequences, FiniteSets, TLC

VARIABLES
    \* inputs and result of a direct call of _compare_versions
    cmp_a, cmp_b, cmp_done, cmp_res,
    \* configuration and process image
    AUTO_APPLY_UPDATE,  \* module constant, line 50
    sys_executable,     \* sys.executable
    sys_argv0,          \* abspath(sys.argv[0])
    \* the disk
    fs,                 \* path -> content
    fs0,                \* history: the disk when the process started
    \* the interactive thread
    host,               \* "running", "exited" (mainloop returned), "restarted" (execv)
    after_q,            \* callbacks scheduled with root.after, in firing order
    ui,                 \* "idle" or the modal prompt that is open
    prompts,            \* history: decision prompts shown
    shown,              \* history: messages shown with showerror
    \* the update-check thread
    chk_pc, info,
    \* what _notify_update_on_ui leaves in the closure of ask_user
    remote_ver, download, expected_sha,
    \* the download/apply thread
    upd_pc, workers, downloads, tmp, tmp_exists,
    applied, idx, ret, bak_result, ow_result,
    \* the answer of the manifest endpoint when it is fixed beforehand
    response,
    \* history: what was executed, in order, each with the thread it ran on
    hist

cmpvars == <<cmp_a, cmp_b, cmp_done, cmp_res>>

cfgvars == <<AUTO_APPLY_UPDATE, sys_executable, sys_argv0, response>>

uivars == <<host, after_q, ui, prompts, shown>>

chkvars == <<chk_pc, info, remote_ver, download, expected_sha>>

updvars == <<upd_pc, workers, downloads, tmp, tmp_exists, applied, idx, ret,
             bak_result, ow_result>>

vars == <<cmpvars, cfgvars, fs, fs0, uivars, chkvars, updvars, hist>>

(***************************************************************************)
(* Version strings.  A string is modelled by the list str.split('.')      *)
(* yields: a non-empty sequence of segments, each a sequence of            *)
(* characters.  Two strings are equal exactly when these lists are equal.  *)
(***************************************************************************)
DecimalChars == {"0", "1", "2"}

\* "sup2" stands for a character such as U+00B2: str.isdigit() accepts it,
\* int() rejects it.
DigitChars == DecimalChars \cup {"sup2"}

SegPool ==
    { <<>>, <<"0">>, <<"1">>, <<"2">>, <<"1", "0">>, <<"a">>, <<"b">>, <<"sup2">> }

MaxSegs == 2

VersionStrings == UNION { [1..n -> SegPool] : n \in 1..MaxSegs }

DigitVal(c) == CASE c = "0" -> 0 [] c = "1" -> 1 [] c = "2" -> 2

\* str.isdigit(): non-empty and every character is a digit character
IsDigit(seg) == Len(seg) > 0 /\ \A i \in 1..Len(seg) : seg[i] \in DigitChars

\* int(x) succeeds on decimal digits only
IntParses(seg) == \A i \in 1..Len(seg) : seg[i] \in DecimalChars

RECURSIVE IntOf(_)
IntOf(seg) ==
    IF seg = <<>> THEN 0
    ELSE 10 * IntOf(SubSeq(seg, 1, Len(seg) - 1)) + DigitVal(seg[Len(seg)])

\* [x for x in s.split('.') if x.isdigit()]
RECURSIVE DigitSegs(_)
DigitSegs(v) ==
    IF v = <<>> THEN <<>>
    ELSE IF IsDigit(Head(v)) THEN <<Head(v)>> \o DigitSegs(Tail(v))
    ELSE DigitSegs(Tail(v))

IntList(segs) == [i \in 1..Len(segs) |-> IntOf(segs[i])]

Max(x, y) == IF x >= y THEN x ELSE y

\* p += [0] * (n - len(p))
PadZeros(p, n) == [i \in 1..n |-> IF i <= Len(p) THEN p[i] ELSE 0]

\* for i in range(n): first differing element decides
RECURSIVE CompareLoop(_, _, _, _)
CompareLoop(pa, pb, i, n) ==
    IF i > n THEN 0
    ELSE IF pa[i] < pb[i] THEN -1
    ELSE IF pa[i] > pb[i] THEN 1
    ELSE CompareLoop(pa, pb, i + 1, n)

\* the except branch: "fallback simple"
CompareFallback(a, b) == IF a = b THEN 0 ELSE -1

\* the comparison without the zero padding: only the common prefix is compared
CompareNoPadMutant(a, b) ==
    LET sa == DigitSegs(a)
        sb == DigitSegs(b)
    IN  IF \E i \in 1..Len(sa) : ~IntParses(sa[i])
        THEN CompareFallback(a, b)
        ELSE IF \E i \in 1..Len(sb) : ~IntParses(sb[i])
        THEN CompareFallback(a, b)
        ELSE LET n == IF Len(sa) <= Len(sb) THEN Len(sa) ELSE Len(sb)
             IN  CompareLoop(IntList(sa), IntList(sb), 1, n)

_compare_versions(a, b) ==
    LET sa == DigitSegs(a)
        sb == DigitSegs(b)
    IN  IF \E i \in 1..Len(sa) : ~IntParses(sa[i])
        THEN CompareFallback(a, b)
        ELSE IF \E i \in 1..Len(sb) : ~IntParses(sb[i])
        THEN CompareFallback(a, b)
        ELSE LET n == Max(Len(sa), Len(sb))
             IN  CompareLoop(PadZeros(IntList(sa), n), PadZeros(IntList(sb), n), 1, n)

(***************************************************************************)
(* Configuration                                                           *)
(***************************************************************************)
\* CURRENT_VERSION = '2.0'
CURRENT_VERSION == << <<"2">>, <<"0">> >>

(***************************************************************************)
(* The manifest endpoint's answers.  A JSON scalar is [t, s]: t is "str",  *)
(* "num" (s is the literal as written), "null", or "missing" for a key a   *)
(* dict does not hold.  A dict is a record over the keys the code reads.   *)
(***************************************************************************)
EmptyStr == << <<>> >>

\* str(None)
NoneStr == << <<"N", "o", "n", "e">> >>

JStr(v) == [t |-> "str", s |-> v]
JNum(v) == [t |-> "num", s |-> v]
JNull == [t |-> "null", s |-> EmptyStr]
JMissing == [t |-> "missing", s |-> EmptyStr]

\* repr of a float drops the trailing zeros of the fraction, keeping one digit
RECURSIVE StripZeros(_)
StripZeros(seg) ==
    IF Len(seg) > 1 /\ seg[Len(seg)] = "0"
    THEN StripZeros(SubSeq(seg, 1, Len(seg) - 1))
    ELSE seg

\* str(x) of a parsed JSON scalar
PyStr(j) ==
    CASE j.t = "str" -> j.s
      [] j.t = "num" -> IF Len(j.s) = 2 THEN <<j.s[1], StripZeros(j.s[2])>> ELSE j.s
      [] OTHER -> NoneStr

\* the checksum field: a hex string, a JSON number, or absent
ShaStr(h) == [k |-> "str", hex |-> h]
ShaNum == [k |-> "num", hex |-> <<>>]
ShaNone == [k |-> "none", hex |-> <<>>]

NoUrl == "none"

Urls == {"https://x/app.zip", "https://x/app.exe", "https://x/app.py", "https://x/page"}

MkDict(vk, v, dk, u, sha) ==
    [ version      |-> IF vk = "version" THEN v ELSE JMissing,
      ver          |-> IF vk = "ver" THEN v ELSE JMissing,
      v            |-> IF vk = "v" THEN v ELSE JMissing,
      release      |-> IF vk = "release" THEN v ELSE JMissing,
      download_url |-> IF dk = "download_url" THEN u ELSE NoUrl,
      url          |-> IF dk = "url" THEN u ELSE NoUrl,
      html_url     |-> IF dk = "html_url" THEN u ELSE NoUrl,
      sha256       |-> sha ]

EmptyDict == MkDict("none", JMissing, "none", NoUrl, ShaNone)

\* what _fetch_update_info returns: None or a dict
NoneInfo == [none |-> TRUE, d |-> EmptyDict]
SomeInfo(d) == [none |-> FALSE, d |-> d]

(***************************************************************************)
(* Downloaded payloads and their digests                                   *)
(***************************************************************************)
MemberNames == {"main.py", "lib.py", "sub/"}

MaxMembers == 2

MemberLists ==
    UNION { { m \in [1..n -> MemberNames] : \A i, j \in 1..n : m[i] = m[j] => i = j }
            : n \in 1..MaxMembers }

RawPayload == [zip |-> FALSE, members |-> <<>>]

Payloads == {RawPayload} \cup { [zip |-> TRUE, members |-> m] : m \in MemberLists }

RECURSIVE MemberHex(_)
MemberHex(ms) ==
    IF ms = <<>> THEN <<>>
    ELSE << CASE Head(ms) = "main.py" -> "1"
              [] Head(ms) = "lib.py" -> "2"
              [] OTHER -> "3" >> \o MemberHex(Tail(ms))

\* hashlib.sha256(...).hexdigest(): lower-case hex, one digest per content
_sha256_of_file(payload) ==
    IF payload.zip THEN <<"a">> \o MemberHex(payload.members) ELSE <<"b", "0">>

LowerChar(c) == CASE c = "A" -> "a" [] c = "B" -> "b" [] OTHER -> c

UpperChar(c) == CASE c = "a" -> "A" [] c = "b" -> "B" [] OTHER -> c

\* str.lower()
Lower(h) == [i \in 1..Len(h) |-> LowerChar(h[i])]

Upper(h) == [i \in 1..Len(h) |-> UpperChar(h[i])]

PublishedDigests ==
    { _sha256_of_file(RawPayload),
      _sha256_of_file([zip |-> TRUE, members |-> <<"lib.py">>]) }

ShaChoices ==
    {ShaNone, ShaNum, ShaStr(<<>>)}
        \cup { ShaStr(d) : d \in PublishedDigests }
        \cup { ShaStr(Upper(d)) : d \in PublishedDigests }

(***************************************************************************)
(* Paths.  The install root is dirname(abspath(sys.argv[0])) = /inst.      *)
(***************************************************************************)
ABSENT == "absent"
DIR == "dir"
PARTIAL == "partial"
NewBytes == "new_bytes"

\* os.path.abspath
AbsPath(p) == IF p = "/inst/./app.exe" THEN "/inst/app.exe" ELSE p

\* os.path.join(os.path.dirname(running_exec), member)
TargetOf(m) ==
    CASE m = "main.py" -> "/inst/main.py"
      [] m = "lib.py" -> "/inst/lib.py"
      [] m = "sub/" -> "/inst/sub"

\* os.path.join(backup_dir, member)
BackupOf(m) ==
    CASE m = "main.py" -> "/inst/backup_T/main.py"
      [] m = "lib.py" -> "/inst/backup_T/lib.py"
      [] m = "sub/" -> "/inst/backup_T/sub"

BackupDir == "/inst/backup_T"

\* target + f'.bak_{int(time.time())}'
BakOf(p) ==
    CASE p = "/inst/main.py" -> "/inst/main.py.bak_T"
      [] p = "/inst/app.exe" -> "/inst/app.exe.bak_T"

\* target_bin + '.new'
NewOf(p) == CASE p = "/inst/app.exe" -> "/inst/app.exe.new"

InstalledPaths == {"/inst/main.py", "/inst/lib.py", "/inst/sub", "/inst/app.exe"}

AllPaths ==
    InstalledPaths \cup { BackupOf(m) : m \in MemberNames }
        \cup {BackupDir, "/inst/main.py.bak_T", "/inst/app.exe.bak_T", "/inst/app.exe.new"}

\* the bytes the archive holds for a member (a directory entry makes a directory)
MemberData(m) ==
    CASE m = "main.py" -> "new_main"
      [] m = "lib.py" -> "new_lib"
      [] m = "sub/" -> DIR

\* basename(p).lower().endswith('.exe')
EndsWithExe(p) == p \in {"/inst/app.exe", "/inst/./app.exe", ".exe"}

\* the suffix _download_to_temp gives the temp file, from the URL
SuffixOf(u) ==
    CASE u = "https://x/app.zip" -> ".zip"
      [] u = "https://x/app.exe" -> ".exe"
      [] u = "https://x/app.py" -> ".py"
      [] OTHER -> ""

(***************************************************************************)
(* What the manifest endpoint may answer                                   *)
(***************************************************************************)
RemoteVersionPool ==
    { << <<"2">> >>, << <<"1">>, <<"1", "0">> >>, << <<"2">>, <<"1">> >>,
      << <<"a">> >>, EmptyStr }

NumPool == { << <<"2">>, <<"1", "0">> >>, << <<"1">> >> }

ScalarPool == { JStr(v) : v \in RemoteVersionPool } \cup { JNum(n) : n \in NumPool }

VersionKeys == {"version", "ver", "v", "release", "none"}

\* (key, url, checksum) of the download fields of a manifest
DownloadChoices ==
    { <<"none", NoUrl, ShaNone>>, <<"html_url", "https://x/page", ShaNone>>,
      <<"url", "https://x/app.zip", ShaNone>> }
        \cup { <<"download_url", u, sha>> :
                 u \in {"https://x/app.zip", "https://x/app.exe", "https://x/app.py"},
                 sha \in ShaChoices }

DictPool ==
    { MkDict(vk, v, dc[1], dc[2], dc[3]) :
        vk \in VersionKeys, v \in ScalarPool \cup {JNull}, dc \in DownloadChoices }

Responses ==
    { [kind |-> k, scalar |-> JNull, dict |-> EmptyDict] :
        k \in {"neterr", "badjson", "null", "list_empty", "list_other"} }
      \cup { [kind |-> k, scalar |-> j, dict |-> EmptyDict] :
               k \in {"scalar", "list_scalar"}, j \in ScalarPool }
      \cup { [kind |-> k, scalar |-> JNull, dict |-> d] :
               k \in {"dict", "list_dict"}, d \in DictPool }

(***************************************************************************)
(* _fetch_update_info                                                      *)
(***************************************************************************)
FetchRawTextMutant(resp) ==
    CASE resp.kind = "neterr" -> NoneInfo
      [] resp.kind = "badjson" ->
            SomeInfo([EmptyDict EXCEPT !.version = JStr(<< <<"2">>, <<"1">> >>)])
      [] resp.kind = "dict" -> SomeInfo(resp.dict)
      [] resp.kind = "scalar" ->
            SomeInfo([EmptyDict EXCEPT !.version = JStr(PyStr(resp.scalar))])
      [] resp.kind = "list_dict" -> SomeInfo(resp.dict)
      [] resp.kind = "list_scalar" ->
            SomeInfo([EmptyDict EXCEPT !.version = JStr(PyStr(resp.scalar))])
      [] OTHER -> NoneInfo

_fetch_update_info(resp) ==
    CASE resp.kind \in {"neterr", "badjson"} -> NoneInfo
      [] resp.kind = "dict" -> SomeInfo(resp.dict)
      [] resp.kind = "scalar" ->
            SomeInfo([EmptyDict EXCEPT !.version = JStr(PyStr(resp.scalar))])
      [] resp.kind = "list_dict" -> SomeInfo(resp.dict)
      [] resp.kind = "list_scalar" ->
            SomeInfo([EmptyDict EXCEPT !.version = JStr(PyStr(resp.scalar))])
      [] OTHER -> NoneInfo

\* the endpoint is free to answer anything
AnyResponse == [kind |-> "any", scalar |-> JNull, dict |-> EmptyDict]

\* the answers urlopen(UPDATE_INFO_URL) can get
Answers(r) == IF r = AnyResponse THEN Responses ELSE {r}

\* urlopen raised (network error, timeout, HTTP error status) or json.loads did
FetchFailed(resp) == resp.kind \in {"neterr", "badjson"}

\* truth value of what the worker got: None and {} are false
InfoTruthy(i) == ~i.none /\ i.d # EmptyDict

(***************************************************************************)
(* _notify_update_on_ui, up to root.after(100, ask_user)                   *)
(***************************************************************************)
HasKey(d, k) ==
    CASE k = "version" -> d.version.t # "missing"
      [] k = "ver" -> d.ver.t # "missing"
      [] k = "v" -> d.v.t # "missing"
      [] k = "release" -> d.release.t # "missing"

ResolveAliasMutant(d) ==
    IF HasKey(d, "version") THEN d
    ELSE IF HasKey(d, "ver") THEN [d EXCEPT !.version = d.ver]
    ELSE IF HasKey(d, "v") THEN [d EXCEPT !.version = d.v]
    ELSE d

\* for k in ('ver','v','release'): first alias present is copied to 'version'
ResolveAlias(d) ==
    IF HasKey(d, "version") THEN d
    ELSE IF HasKey(d, "ver") THEN [d EXCEPT !.version = d.ver]
    ELSE IF HasKey(d, "v") THEN [d EXCEPT !.version = d.v]
    ELSE IF HasKey(d, "release") THEN [d EXCEPT !.version = d.release]
    ELSE d

UrlTruthy(u) == u # NoUrl /\ u # ""

\* download_url or url or html_url
DownloadOf(d) ==
    IF UrlTruthy(d.download_url) THEN d.download_url
    ELSE IF UrlTruthy(d.url) THEN d.url
    ELSE d.html_url

\* if cmp >= 0: return
UpToDateMutant(c) == c > 0

UpToDate(c) == c >= 0

\* [prompt: ask_user is scheduled, ver: remote_ver ("" when never computed)]
NotifyDecision(d) ==
    LET r == ResolveAlias(d) IN
    IF ~HasKey(r, "version") THEN [prompt |-> FALSE, ver |-> EmptyStr]
    ELSE LET rv == PyStr(r.version) IN
         IF rv = EmptyStr THEN [prompt |-> FALSE, ver |-> rv]
         ELSE IF UpToDate(_compare_versions(CURRENT_VERSION, rv))
         THEN [prompt |-> FALSE, ver |-> rv]
         ELSE [prompt |-> TRUE, ver |-> rv]

(***************************************************************************)
(* Initial state: the process has been constructed, start_update_check has *)
(* started the check thread and mainloop is running.                       *)
(***************************************************************************)
NoTmp == [none |-> TRUE, suffix |-> "", payload |-> RawPayload]

NoRet == [set |-> FALSE, ok |-> FALSE, msg |-> ""]

\* (sys.executable, abspath(sys.argv[0])): interpreted script, compiled
\* executable, compiled executable whose sys.executable is not normalised
RunModes ==
    { <<"/usr/bin/python", "/inst/main.py">>,
      <<"/inst/app.exe", "/inst/app.exe">>,
      <<"/inst/./app.exe", "/inst/app.exe">> }

InitialDisks(argv0) ==
    { [p \in AllPaths |->
          CASE p = "/inst/main.py" -> IF argv0 = "/inst/main.py" THEN "old_main" ELSE ABSENT
            [] p = "/inst/app.exe" -> IF argv0 = "/inst/app.exe" THEN "old_exe" ELSE ABSENT
            [] p = "/inst/lib.py" -> lib
            [] p = "/inst/sub" -> sub
            [] OTHER -> ABSENT] :
        lib \in {ABSENT, "old_lib"}, sub \in {ABSENT, DIR} }

CmpIdle ==
    /\ cmp_a = CURRENT_VERSION
    /\ cmp_b = EmptyStr
    /\ cmp_done = FALSE
    /\ cmp_res = 0

ThreadsInit ==
    /\ host = "running"
    /\ after_q = <<>>
    /\ ui = "idle"
    /\ prompts = {}
    /\ shown = {}
    /\ chk_pc = "fetch"
    /\ info = NoneInfo
    /\ remote_ver = EmptyStr
    /\ download = NoUrl
    /\ expected_sha = ShaNone
    /\ upd_pc = "idle"
    /\ workers = 0
    /\ downloads = 0
    /\ tmp = NoTmp
    /\ tmp_exists = FALSE
    /\ applied = FALSE
    /\ idx = 0
    /\ ret = NoRet
    /\ bak_result = "none"
    /\ ow_result = "none"
    /\ hist = <<>>

Init ==
    /\ CmpIdle
    /\ AUTO_APPLY_UPDATE \in BOOLEAN
    /\ \E rm \in RunModes : sys_executable = rm[1] /\ sys_argv0 = rm[2]
    /\ fs \in InitialDisks(sys_argv0)
    /\ fs0 = fs
    /\ ThreadsInit
    /\ response = AnyResponse

(***************************************************************************)
(* Threads.  The interactive thread is the one that runs mainloop(); the   *)
(* other two are the threading.Thread objects the code starts.             *)
(***************************************************************************)
MainThread == "main"

\* threading.Thread(target=worker, daemon=True).start() in start_update_check
CheckThread == "check"

WorkerThreadMutant == "main"

\* threading.Thread(target=worker_update, daemon=True).start()
WorkerThread == "update"

Ev(e, t) == [ev |-> e, th |-> t]

Log(evs) == hist' = hist \o evs

(***************************************************************************)
(* The update-check thread: start_update_check.worker                      *)
(***************************************************************************)
Fetch ==
    /\ host = "running"
    /\ chk_pc = "fetch"
    /\ \E resp \in Answers(response) :
          /\ info' = _fetch_update_info(resp)
          /\ Log(<<Ev(IF FetchFailed(resp) THEN "fetch_failed" ELSE "fetch", CheckThread)>>)
    /\ chk_pc' = "fetched"
    /\ UNCHANGED <<cmpvars, cfgvars, fs, fs0, uivars, remote_ver, download,
                   expected_sha, updvars>>

\* if info: _notify_update_on_ui(root, info)
CheckNotify ==
    /\ host = "running"
    /\ chk_pc = "fetched"
    /\ chk_pc' = "done"
    /\ info' = NoneInfo
    /\ IF InfoTruthy(info)
       THEN LET r   == ResolveAlias(info.d)
                dec == NotifyDecision(info.d)
            IN  /\ Log((IF HasKey(r, "version") /\ dec.ver # EmptyStr
                         THEN <<Ev("compare", CheckThread)>> ELSE <<>>)
                        \o (IF dec.prompt
                            THEN <<Ev("schedule_prompt", CheckThread)>> ELSE <<>>))
                /\ remote_ver' = dec.ver
                /\ IF HasKey(r, "version") /\ dec.ver # EmptyStr
                   THEN /\ cmp_b' = dec.ver
                        /\ cmp_res' = _compare_versions(CURRENT_VERSION, dec.ver)
                        /\ cmp_done' = TRUE
                        /\ UNCHANGED cmp_a
                   ELSE UNCHANGED cmpvars
                /\ IF dec.prompt
                   THEN /\ download' = DownloadOf(r)
                        /\ expected_sha' = r.sha256
                        /\ after_q' = Append(after_q, "ask_user")
                   ELSE UNCHANGED <<download, expected_sha, after_q>>
       ELSE UNCHANGED <<cmpvars, remote_ver, download, expected_sha, after_q, hist>>
    /\ UNCHANGED <<cfgvars, fs, fs0, host, ui, prompts, shown, updvars>>

(***************************************************************************)
(* The interactive thread: callbacks of root.after and the user's answers  *)
(***************************************************************************)
\* ask_user, up to the modal prompt it opens
RunAskUser ==
    /\ host = "running"
    /\ Log(<<Ev("prompt", MainThread)>>)
    /\ ui = "idle"
    /\ after_q # <<>>
    /\ Head(after_q) = "ask_user"
    /\ after_q' = Tail(after_q)
    /\ IF AUTO_APPLY_UPDATE /\ UrlTruthy(download)
       THEN ui' = "askyesno" /\ prompts' = prompts \cup {"askyesno"}
       ELSE ui' = "askquestion" /\ prompts' = prompts \cup {"askquestion"}
    /\ UNCHANGED <<cmpvars, cfgvars, fs, fs0, host, shown, chkvars, updvars>>

\* lambda: messagebox.showerror(...)
RunShowError ==
    /\ host = "running"
    /\ Log(<<Ev("showerror", MainThread)>>)
    /\ ui = "idle"
    /\ after_q # <<>>
    /\ Head(after_q) # "ask_user"
    /\ after_q' = Tail(after_q)
    /\ shown' = shown \cup {Head(after_q)}
    /\ UNCHANGED <<cmpvars, cfgvars, fs, fs0, host, ui, prompts, chkvars, updvars>>

StartWorker ==
    /\ upd_pc' = "download"
    /\ workers' = workers + 1
    /\ UNCHANGED <<downloads, tmp, tmp_exists, applied, idx, ret, bak_result, ow_result>>

AutoYesMutant ==
    /\ host = "running"
    /\ Log(<<Ev("proceed", MainThread), Ev("prompt", MainThread)>>)
    /\ ui = "askyesno"
    /\ ui' = "askquestion"
    /\ prompts' = prompts \cup {"askquestion"}
    /\ StartWorker
    /\ UNCHANGED <<cmpvars, cfgvars, fs, fs0, host, after_q, shown, chkvars>>

\* askyesno answered yes: threading.Thread(target=worker_update).start()
AutoYes ==
    /\ host = "running"
    /\ Log(<<Ev("proceed", MainThread)>>)
    /\ ui = "askyesno"
    /\ ui' = "idle"
    /\ StartWorker
    /\ UNCHANGED <<cmpvars, cfgvars, fs, fs0, host, after_q, prompts, shown, chkvars>>

AutoNoMutant ==
    /\ host = "running"
    /\ Log(<<Ev("decline", MainThread)>>)
    /\ ui = "askyesno"
    /\ ui' = "idle"
    /\ StartWorker
    /\ UNCHANGED <<cmpvars, cfgvars, fs, fs0, host, after_q, prompts, shown, chkvars>>

\* askyesno answered no: return
AutoNo ==
    /\ host = "running"
    /\ Log(<<Ev("decline", MainThread)>>)
    /\ ui = "askyesno"
    /\ ui' = "idle"
    /\ UNCHANGED <<cmpvars, cfgvars, fs, fs0, host, after_q, prompts, shown, chkvars,
                   updvars>>

\* askquestion answered 'yes' with a download link: worker_update2 is started
ChoiceYes ==
    /\ host = "running"
    /\ Log(<<Ev("proceed", MainThread)>>)
    /\ ui = "askquestion"
    /\ UrlTruthy(download)
    /\ ui' = "idle"
    /\ StartWorker
    /\ UNCHANGED <<cmpvars, cfgvars, fs, fs0, host, after_q, prompts, shown, chkvars>>

\* askquestion answered 'yes' without a link: showinfo, return
ChoiceYesNoLink ==
    /\ host = "running"
    /\ Log(<<Ev("showinfo", MainThread), Ev("decline", MainThread)>>)
    /\ ui = "askquestion"
    /\ ~UrlTruthy(download)
    /\ ui' = "idle"
    /\ UNCHANGED <<cmpvars, cfgvars, fs, fs0, host, after_q, prompts, shown, chkvars,
                   updvars>>

\* askquestion answered 'no': webbrowser.open(download), or showinfo
ChoiceNo ==
    /\ host = "running"
    /\ Log(<<Ev(IF UrlTruthy(download) THEN "open_page" ELSE "showinfo", MainThread),
           Ev("decline", MainThread)>>)
    /\ ui = "askquestion"
    /\ ui' = "idle"
    /\ UNCHANGED <<cmpvars, cfgvars, fs, fs0, host, after_q, prompts, shown, chkvars,
                   updvars>>

\* the user closes the window: app.mainloop() returns, the process exits and
\* its daemon threads end with it
Quit ==
    /\ host = "running"
    /\ UNCHANGED hist
    /\ ui = "idle"
    /\ host' = "exited"
    /\ chk_pc' = IF chk_pc = "done" THEN chk_pc ELSE "killed"
    /\ upd_pc' = IF upd_pc \in {"idle", "done"} THEN upd_pc ELSE "killed"
    /\ UNCHANGED <<cmpvars, cfgvars, fs, fs0, after_q, ui, prompts, shown, info,
                   remote_ver, download, expected_sha, workers, downloads, tmp,
                   tmp_exists, applied, idx, ret, bak_result, ow_result>>

(***************************************************************************)
(* The download/apply thread: worker_update and worker_update2 (the same   *)
(* body), _download_to_temp and _apply_update_file(tmp, expected_sha, True)*)
(***************************************************************************)
\* what a shutil.copy2 or an extraction does: complete; raise before the
\* destination is opened; raise after it was opened for writing
IoModes == {"ok", "fail_open", "fail_write"}

Members == tmp.payload.members

\* running_exec and running_binary
running_exec == sys_argv0
running_binary == AbsPath(sys_executable)

\* tmp = _download_to_temp(download)
Download ==
    /\ host = "running"
    /\ Log(<<Ev("download", WorkerThread)>>)
    /\ upd_pc = "download"
    /\ downloads' = downloads + 1
    /\ \/ tmp' = NoTmp /\ tmp_exists' = FALSE
       \/ \E p \in Payloads :
            /\ tmp' = [none |-> FALSE, suffix |-> SuffixOf(download), payload |-> p]
            /\ tmp_exists' = TRUE
    /\ upd_pc' = "downloaded"
    /\ UNCHANGED <<cmpvars, cfgvars, fs, fs0, uivars, chkvars, workers, applied, idx,
                   ret, bak_result, ow_result>>

\* if not tmp: root.after(100, showerror); return
DownloadFailed ==
    /\ host = "running"
    /\ Log(<<Ev("schedule_error", WorkerThread)>>)
    /\ upd_pc = "downloaded"
    /\ tmp.none
    /\ after_q' = Append(after_q, "download_failed")
    /\ upd_pc' = "done"
    /\ UNCHANGED <<cmpvars, cfgvars, fs, fs0, host, ui, prompts, shown, chkvars,
                   workers, downloads, tmp, tmp_exists, applied, idx, ret, bak_result,
                   ow_result>>

\* return ok, message
Return(ok, msg) ==
    /\ ret' = [set |-> TRUE, ok |-> ok, msg |-> msg]
    /\ upd_pc' = "returned"

ShaTruthy(sha) == sha.k = "num" \/ (sha.k = "str" /\ sha.hex # <<>>)

ChecksumMismatchMutant(got, expected) == Len(got) # Len(expected)

\* got.lower() != expected_sha256.lower()
ChecksumMismatch(got, expected) == Lower(got) # Lower(expected)

\* downloaded name ends in .exe, running binary ends in .exe, and
\* running_binary != sys.executable
ExeCandidate ==
    /\ EndsWithExe(tmp.suffix)
    /\ EndsWithExe(running_binary)
    /\ running_binary # sys_executable

\* lines 175-208: the checksum gate, then the branch taken
Checksum ==
    /\ host = "running"
    /\ Log(<<Ev("verify", WorkerThread)>>)
    /\ upd_pc = "downloaded"
    /\ ~tmp.none
    /\ IF ShaTruthy(expected_sha) /\ expected_sha.k = "num"
       THEN Return(FALSE, "exception")
       ELSE IF ShaTruthy(expected_sha)
               /\ ChecksumMismatch(_sha256_of_file(tmp.payload), expected_sha.hex)
       THEN Return(FALSE, "sha_mismatch")
       ELSE /\ upd_pc' = IF tmp.payload.zip THEN "zip_mkdir"
                         ELSE IF ExeCandidate THEN "exe_backup"
                         ELSE "script_backup"
            /\ UNCHANGED ret
    /\ UNCHANGED <<cmpvars, cfgvars, fs, fs0, uivars, chkvars, workers, downloads, tmp,
                   tmp_exists, applied, idx, bak_result, ow_result>>

\* os.makedirs(backup_dir, exist_ok=True)
ZipMkdir ==
    /\ host = "running"
    /\ Log(<<Ev("backup", WorkerThread)>>)
    /\ upd_pc = "zip_mkdir"
    /\ \/ /\ fs' = [fs EXCEPT ![BackupDir] = DIR]
          /\ upd_pc' = "zip_backup"
          /\ idx' = 1
          /\ UNCHANGED ret
       \/ /\ Return(FALSE, "exception")
          /\ UNCHANGED <<fs, idx>>
    /\ UNCHANGED <<cmpvars, cfgvars, fs0, uivars, chkvars, workers, downloads, tmp,
                   tmp_exists, applied, bak_result, ow_result>>

ZipBackupCopyMutant(f, m) == f

\* shutil.copy2(target, destbackup)
ZipBackupCopy(f, m) == [f EXCEPT ![BackupOf(m)] = f[TargetOf(m)]]

\* one turn of "for member in z.namelist()"
ZipBackup ==
    /\ host = "running"
    /\ upd_pc = "zip_backup"
    /\ Log(IF fs[TargetOf(Members[idx])] = ABSENT THEN <<>>
           ELSE <<Ev("backup", WorkerThread)>>)
    /\ LET m    == Members[idx]
           next == /\ UNCHANGED ret
                   /\ IF idx = Len(Members)
                      THEN upd_pc' = "zip_extract" /\ idx' = 1
                      ELSE upd_pc' = "zip_backup" /\ idx' = idx + 1
       IN  IF fs[TargetOf(m)] = ABSENT
           THEN next /\ UNCHANGED fs
           ELSE IF fs[TargetOf(m)] = DIR
           \* makedirs(dirname(destbackup)) makes the directory, copy2 of a
           \* directory raises
           THEN /\ fs' = [fs EXCEPT ![BackupOf(m)] = DIR]
                /\ Return(FALSE, "exception")
                /\ UNCHANGED idx
           ELSE \/ next /\ fs' = ZipBackupCopy(fs, m)
                \/ Return(FALSE, "exception") /\ UNCHANGED <<fs, idx>>
                \/ /\ fs' = [fs EXCEPT ![BackupOf(m)] = PARTIAL]
                   /\ Return(FALSE, "exception")
                   /\ UNCHANGED idx
    /\ UNCHANGED <<cmpvars, cfgvars, fs0, uivars, chkvars, workers, downloads, tmp,
                   tmp_exists, applied, bak_result, ow_result>>

\* z.extractall(...): one member at a time, in the archive's order
ZipExtract ==
    /\ host = "running"
    /\ Log(<<Ev("write", WorkerThread)>>)
    /\ upd_pc = "zip_extract"
    /\ LET m == Members[idx]
       IN  \/ /\ fs' = [fs EXCEPT ![TargetOf(m)] = MemberData(m)]
              /\ UNCHANGED ret
              /\ IF idx = Len(Members)
                 THEN upd_pc' = "cleanup" /\ applied' = TRUE /\ UNCHANGED idx
                 ELSE upd_pc' = "zip_extract" /\ idx' = idx + 1 /\ UNCHANGED applied
           \/ /\ Return(FALSE, "exception")
              /\ UNCHANGED <<fs, idx, applied>>
           \/ /\ MemberData(m) # DIR
              /\ fs' = [fs EXCEPT ![TargetOf(m)] = PARTIAL]
              /\ Return(FALSE, "exception")
              /\ UNCHANGED <<idx, applied>>
    /\ UNCHANGED <<cmpvars, cfgvars, fs0, uivars, chkvars, workers, downloads, tmp,
                   tmp_exists, bak_result, ow_result>>

BakCopyMutant(f, target) == [f EXCEPT ![BakOf(target)] = NewBytes]

\* shutil.copy2(target, target + '.bak_<t>')
BakCopy(f, target) == [f EXCEPT ![BakOf(target)] = f[target]]

\* try: copy2(target, backup) except Exception: pass
BestEffortBackup(target, nextpc) ==
    /\ Log(<<Ev("backup", WorkerThread)>>)
    /\ \/ fs' = BakCopy(fs, target) /\ bak_result' = "ok"
       \/ UNCHANGED fs /\ bak_result' = "failed"
       \/ fs' = [fs EXCEPT ![BakOf(target)] = PARTIAL] /\ bak_result' = "failed"
    /\ upd_pc' = nextpc
    /\ UNCHANGED <<cmpvars, cfgvars, fs0, uivars, chkvars, workers, downloads, tmp,
                   tmp_exists, applied, idx, ret, ow_result>>

ExeBackup ==
    /\ host = "running"
    /\ upd_pc = "exe_backup"
    /\ BestEffortBackup(running_binary, "exe_overwrite")

\* shutil.copy2(downloaded_path, target_bin); on failure go to the fallback
ExeOverwrite ==
    /\ host = "running"
    /\ Log(<<Ev("write", WorkerThread)>>)
    /\ upd_pc = "exe_overwrite"
    /\ \/ /\ fs' = [fs EXCEPT ![running_binary] = NewBytes]
          /\ ow_result' = "ok"
          /\ applied' = TRUE
          /\ upd_pc' = "cleanup"
       \/ /\ UNCHANGED <<fs, applied>>
          /\ ow_result' = "failed"
          /\ upd_pc' = "exe_new"
       \/ /\ fs' = [fs EXCEPT ![running_binary] = PARTIAL]
          /\ ow_result' = "failed"
          /\ upd_pc' = "exe_new"
          /\ UNCHANGED applied
    /\ UNCHANGED <<cmpvars, cfgvars, fs0, uivars, chkvars, workers, downloads, tmp,
                   tmp_exists, idx, ret, bak_result>>

\* alt = target_bin + '.new'; shutil.copy2(downloaded_path, alt); return False, ...
ExeNew ==
    /\ host = "running"
    /\ Log(<<Ev("write_new", WorkerThread)>>)
    /\ upd_pc = "exe_new"
    /\ \/ /\ fs' = [fs EXCEPT ![NewOf(running_binary)] = NewBytes]
          /\ Return(FALSE, "exe_new")
       \/ /\ UNCHANGED fs
          /\ Return(FALSE, "exception")
       \/ /\ fs' = [fs EXCEPT ![NewOf(running_binary)] = PARTIAL]
          /\ Return(FALSE, "exception")
    /\ UNCHANGED <<cmpvars, cfgvars, fs0, uivars, chkvars, workers, downloads, tmp,
                   tmp_exists, applied, idx, bak_result, ow_result>>

ScriptBackup ==
    /\ host = "running"
    /\ upd_pc = "script_backup"
    /\ BestEffortBackup(running_exec, "script_overwrite")

\* shutil.copy2(downloaded_path, target_script); on failure return False
ScriptOverwrite ==
    /\ host = "running"
    /\ Log(<<Ev("write", WorkerThread)>>)
    /\ upd_pc = "script_overwrite"
    /\ \/ /\ fs' = [fs EXCEPT ![running_exec] = NewBytes]
          /\ ow_result' = "ok"
          /\ applied' = TRUE
          /\ upd_pc' = "cleanup"
          /\ UNCHANGED ret
       \/ /\ UNCHANGED <<fs, applied>>
          /\ ow_result' = "failed"
          /\ Return(FALSE, "write_error")
       \/ /\ fs' = [fs EXCEPT ![running_exec] = PARTIAL]
          /\ ow_result' = "failed"
          /\ Return(FALSE, "write_error")
          /\ UNCHANGED applied
    /\ UNCHANGED <<cmpvars, cfgvars, fs0, uivars, chkvars, workers, downloads, tmp,
                   tmp_exists, idx, bak_result>>

\* try: os.remove(downloaded_path) except Exception: pass
Cleanup ==
    /\ host = "running"
    /\ Log(<<Ev("remove_tmp", WorkerThread)>>)
    /\ upd_pc = "cleanup"
    /\ tmp_exists' \in {FALSE, tmp_exists}
    /\ upd_pc' = "restart"
    /\ UNCHANGED <<cmpvars, cfgvars, fs, fs0, uivars, chkvars, workers, downloads, tmp,
                   applied, idx, ret, bak_result, ow_result>>

\* os.execv(python, [python] + sys.argv) replaces the process image
RestartOk ==
    /\ host = "running"
    /\ Log(<<Ev("restart", WorkerThread)>>)
    /\ upd_pc = "restart"
    /\ host' = "restarted"
    /\ upd_pc' = "execed"
    /\ chk_pc' = IF chk_pc = "done" THEN chk_pc ELSE "killed"
    /\ UNCHANGED <<cmpvars, cfgvars, fs, fs0, after_q, ui, prompts, shown, info,
                   remote_ver, download, expected_sha, workers, downloads, tmp,
                   tmp_exists, applied, idx, ret, bak_result, ow_result>>

RestartFailureOutcomeMutant == [ok |-> FALSE, msg |-> "exception"]

\* except Exception: return True, "Mise a jour appliquee (redemarrage
\* automatique echoue). Relance manuelle requise."
RestartFailureOutcome == [ok |-> TRUE, msg |-> "applied_manual_restart"]

\* os.execv raises
RestartFails ==
    /\ host = "running"
    /\ Log(<<Ev("restart", WorkerThread)>>)
    /\ upd_pc = "restart"
    /\ Return(RestartFailureOutcome.ok, RestartFailureOutcome.msg)
    /\ UNCHANGED <<cmpvars, cfgvars, fs, fs0, uivars, chkvars, workers, downloads, tmp,
                   tmp_exists, applied, idx, bak_result, ow_result>>

FailureReportedMutant(ok) == FALSE

\* if not ok:
FailureReported(ok) == ~ok

\* ok, info = _apply_update_file(...); if not ok: root.after(100, showerror(info))
AfterApply ==
    /\ host = "running"
    /\ Log(IF FailureReported(ret.ok) THEN <<Ev("schedule_error", WorkerThread)>> ELSE <<>>)
    /\ upd_pc = "returned"
    /\ upd_pc' = "done"
    /\ IF FailureReported(ret.ok)
       THEN after_q' = Append(after_q, ret.msg)
       ELSE UNCHANGED after_q
    /\ UNCHANGED <<cmpvars, cfgvars, fs, fs0, host, ui, prompts, shown, chkvars,
                   workers, downloads, tmp, tmp_exists, applied, idx, ret, bak_result,
                   ow_result>>

(***************************************************************************)
(* The whole program                                                       *)
(***************************************************************************)
CheckStep == Fetch \/ CheckNotify

UiStep == RunAskUser \/ RunShowError

UserStep == AutoYes \/ AutoNo \/ ChoiceYes \/ ChoiceYesNoLink \/ ChoiceNo \/ Quit

WorkerStep ==
    \/ Download \/ DownloadFailed \/ Checksum
    \/ ZipMkdir \/ ZipBackup \/ ZipExtract
    \/ ExeBackup \/ ExeOverwrite \/ ExeNew
    \/ ScriptBackup \/ ScriptOverwrite
    \/ Cleanup \/ RestartOk \/ RestartFails \/ AfterApply

Next == CheckStep \/ UiStep \/ UserStep \/ WorkerStep

Spec == Init /\ [][Next]_vars

\* the interactive loop runs the callbacks that are due and the download/apply
\* thread keeps being scheduled; the user and the network are free
FairSpec ==
    /\ Init
    /\ [][Next]_vars
    /\ WF_vars(UiStep)
    /\ WF_vars(WorkerStep)

(***************************************************************************)
(* Applier claims                                                          *)
(***************************************************************************)
\* the manifest supplied no checksum: absent, or the empty string
NoChecksum == expected_sha.k = "none" \/ (expected_sha.k = "str" /\ expected_sha.hex = <<>>)

CasePairs == { <<"a", "A">>, <<"A", "a">>, <<"b", "B">>, <<"B", "b">> }

SameHexIgnoringCase(x, y) ==
    /\ Len(x) = Len(y)
    /\ \A i \in 1..Len(x) : x[i] = y[i] \/ <<x[i], y[i]>> \in CasePairs

\* C1: the disk is changed (a backup made, an installed file, script or
\* executable written) only if the manifest supplied no checksum or the
\* SHA-256 of the downloaded artifact equals the expected hex string, compared
\* case-insensitively.
C1_ChecksumGate ==
    (fs # fs0) =>
        \/ NoChecksum
        \/ /\ expected_sha.k = "str"
           /\ SameHexIgnoringCase(_sha256_of_file(tmp.payload), expected_sha.hex)

\* an artifact was applied whose checksum the manifest gave in upper case
C1_Witness ==
    /\ applied
    /\ fs # fs0
    /\ expected_sha.k = "str"
    /\ expected_sha.hex = <<"A", "2">>

ZipBranch == ~tmp.none /\ tmp.payload.zip

SingleFile == ~tmp.none /\ ~tmp.payload.zip

\* every member whose target existed is in the backup directory, as it was
MembersBackedUp ==
    \A i \in 1..Len(Members) :
        fs0[TargetOf(Members[i])] # ABSENT
            => fs[BackupOf(Members[i])] = fs0[TargetOf(Members[i])]

MembersInstalled ==
    \A i \in 1..Len(Members) : fs[TargetOf(Members[i])] = MemberData(Members[i])

\* C2: in an archive apply, from the moment extraction starts (and whenever
\* an installed path has changed) every member whose target existed has its
\* pre-apply content in the backup directory at the same relative path; after
\* a successful apply the backup still equals the pre-apply file and every
\* installed file equals its archive member.
C2_ArchiveBackupFirst ==
    ZipBranch =>
        /\ (upd_pc = "zip_extract" \/ \E p \in InstalledPaths : fs[p] # fs0[p])
               => MembersBackedUp
        /\ applied => (MembersBackedUp /\ MembersInstalled)

\* an archive whose member lib.py collided with an installed lib.py was applied
C2_Witness ==
    /\ ZipBranch
    /\ applied
    /\ \E i \in 1..Len(Members) : Members[i] = "lib.py"
    /\ fs0["/inst/lib.py"] = "old_lib"
    /\ fs["/inst/backup_T/lib.py"] = "old_lib"
    /\ fs["/inst/lib.py"] = "new_lib"

\* what the single-file branches overwrite
OverwriteTarget == IF ExeCandidate THEN running_binary ELSE running_exec

\* C3 (as stated): in script and executable replacement the overwrite is
\* attempted only in states where the .bak_<timestamp> sibling exists and
\* holds the pre-apply content.
C3_BackupExistsBeforeOverwrite ==
    (SingleFile /\ ow_result # "none")
        => fs[BakOf(OverwriteTarget)] = fs0[OverwriteTarget]

\* C3 (amended): in script and executable replacement the copy to the
\* .bak_<timestamp> sibling is attempted before the overwrite, and when that
\* copy succeeded the sibling holds the pre-apply content; when it failed the
\* overwrite proceeds all the same.
C3_BackupAttemptedBeforeOverwrite ==
    (SingleFile /\ ow_result # "none")
        => /\ bak_result # "none"
           /\ bak_result = "ok" => fs[BakOf(OverwriteTarget)] = fs0[OverwriteTarget]

\* the script was overwritten after its backup copy had succeeded
C3_Witness ==
    /\ SingleFile
    /\ ow_result = "ok"
    /\ bak_result = "ok"
    /\ fs["/inst/main.py"] = NewBytes
    /\ fs["/inst/main.py.bak_T"] = "old_main"

\* C4 (as stated): whenever apply returns a failed outcome, every installed
\* file, the running script and the running executable have the content they
\* had before the call.
C4_FailureLeavesInstallUntouched ==
    (ret.set /\ ~ret.ok) => \A p \in InstalledPaths : fs[p] = fs0[p]

\* C5 (as stated): when a non-archive artifact named .exe is applied while the
\* running image is a compiled .exe and the running executable cannot be
\* overwritten, apply returns a failure naming the .new path, the executable
\* is unchanged and <binary>.new holds the downloaded bytes.
C5_ExeFallback ==
    (SingleFile /\ tmp.suffix = ".exe" /\ EndsWithExe(running_binary)
         /\ ow_result = "failed" /\ ret.set)
        => /\ ~ret.ok
           /\ ret.msg = "exe_new"
           /\ fs[running_binary] = fs0[running_binary]
           /\ fs[NewOf(running_binary)] = NewBytes

(***************************************************************************)
(* Orchestrator claims                                                     *)
(***************************************************************************)
RECURSIVE SeqHas(_, _)
SeqHas(q, x) == q # <<>> /\ (Head(q) = x \/ SeqHas(Tail(q), x))

\* C8: when the comparator says the remote version is not newer
\* (compare(local, remote) >= 0), no prompt is scheduled or shown and the
\* downloader and the applier are never invoked.
C8_NoOpWhenUpToDate ==
    (cmp_done /\ cmp_res >= 0)
        => /\ prompts = {}
           /\ ui = "idle"
           /\ ~SeqHas(after_q, "ask_user")
           /\ workers = 0
           /\ downloads = 0
           /\ upd_pc = "idle"
           /\ fs = fs0

\* the manifest said "2", equal to the local "2.0", and the check thread ended
C8_Witness ==
    /\ chk_pc = "done"
    /\ cmp_done
    /\ cmp_b = << <<"2">> >>
    /\ cmp_res = 0

\* C9 (as stated): with auto-apply enabled, a strictly newer remote version
\* and a download URL, no prompt is shown and no answer is awaited before the
\* download worker starts.
C9_AutoApplyWithoutPrompt ==
    (AUTO_APPLY_UPDATE /\ UrlTruthy(download)) => (prompts = {} /\ ui = "idle")

FailureMessages ==
    {"download_failed", "sha_mismatch", "exe_new", "write_error", "exception"}

\* the attempt has failed with message m
AttemptFailed(m) ==
    \/ m = "download_failed" /\ downloads > 0 /\ tmp.none /\ upd_pc \in {"downloaded", "done"}
    \/ ret.set /\ ~ret.ok /\ ret.msg = m

\* C10: after the user chose to proceed, every failure of the attempt
\* (download failed, checksum mismatch, any apply error, the .new fallback)
\* leads to an error notification carrying its message on the host, for as
\* long as the host is there to be notified; and no failed attempt ends
\* without its notification having been scheduled.
C10_FailureIsNotified ==
    /\ [](\A m \in FailureMessages :
            (AttemptFailed(m) /\ upd_pc = "done") => (SeqHas(after_q, m) \/ m \in shown))
    /\ \A m \in FailureMessages :
            AttemptFailed(m) ~> (m \in shown \/ host # "running")

\* the .new fallback was reported to the host
C10_Witness ==
    /\ ret.set
    /\ ~ret.ok
    /\ ret.msg = "exe_new"
    /\ "exe_new" \in shown
    /\ host = "running"

(***************************************************************************)
(* Restart and cleanup claims                                              *)
(***************************************************************************)
HasEvent(e) == \E i \in 1..Len(hist) : hist[i].ev = e

CountEvents(E) == Cardinality({ i \in 1..Len(hist) : hist[i].ev \in E })

\* what the apply wrote in place of the installation
InstallWritten ==
    IF ZipBranch THEN MembersInstalled ELSE fs[OverwriteTarget] = NewBytes

\* C11: when the update was written to disk and os.execv then failed, apply
\* has returned success (True) with the message that a manual restart is
\* required; a restart failure never makes the outcome a failure.
C11_RestartFailureIsSuccess ==
    (HasEvent("restart") /\ upd_pc # "execed")
        => /\ applied
           /\ InstallWritten
           /\ ret = [set |-> TRUE, ok |-> TRUE, msg |-> "applied_manual_restart"]

\* the script was replaced, execv failed and the worker ended
C11_Witness ==
    /\ HasEvent("restart")
    /\ upd_pc = "done"
    /\ host = "running"
    /\ ret.ok
    /\ fs["/inst/main.py"] = NewBytes

\* the message of the terminal outcome of the attempt
OutcomeMessage == IF ret.set THEN ret.msg ELSE "download_failed"

\* C12 (as stated): every attempt that ended after its download began has its
\* outcome reported to the host: the message is scheduled for, or was shown
\* on, the interactive thread; in particular "manual restart required" when
\* the update was applied and the restart failed.
C12_TerminalOutcomeReported ==
    upd_pc = "done" => (SeqHas(after_q, OutcomeMessage) \/ OutcomeMessage \in shown)

\* the downloaded artifact passed the checksum gate of apply
PassedGate ==
    /\ HasEvent("verify")
    /\ \/ NoChecksum
       \/ /\ expected_sha.k = "str"
          /\ SameHexIgnoringCase(_sha256_of_file(tmp.payload), expected_sha.hex)

\* C13 (as stated): when an apply that passed the checksum gate has returned,
\* with success or with failure, the scratch file of the download is gone,
\* unless its removal was attempted and failed.
C13_TempRemovedOnReturn ==
    (ret.set /\ PassedGate /\ tmp_exists) => HasEvent("remove_tmp")

(***************************************************************************)
(* Lifecycle claims                                                        *)
(***************************************************************************)
\* C14: Declined is terminal.  Once the user has deferred, chosen to open the
\* release page, or chosen to proceed when there is no download link, nothing
\* more happens for the rest of the process: no worker is started, nothing is
\* downloaded or applied, the disk is as it was, and no further prompt is
\* scheduled or shown.
C14_DeclinedIsTerminal ==
    HasEvent("decline")
        => /\ hist[Len(hist)].ev = "decline"
           /\ CountEvents({"prompt"}) = 1
           /\ ui = "idle"
           /\ ~SeqHas(after_q, "ask_user")
           /\ workers = 0
           /\ downloads = 0
           /\ upd_pc = "idle"
           /\ fs = fs0

\* the user chose to open the release page and later closed the application
C14_Witness ==
    /\ HasEvent("open_page")
    /\ HasEvent("decline")
    /\ host = "exited"

\* C15: a failed update check is silent and harmless.  When the fetch met a
\* network error, a timeout, an HTTP error status or a body that is not JSON,
\* it returns None and the run ends there: no comparison, no prompt, no error
\* notification, no download, the disk untouched, and the host keeps running
\* until the user closes it.
C15_FailedCheckIsSilent ==
    HasEvent("fetch_failed")
        => /\ Len(hist) = 1
           /\ info = NoneInfo
           /\ ~cmp_done
           /\ after_q = <<>>
           /\ ui = "idle"
           /\ prompts = {}
           /\ shown = {}
           /\ workers = 0
           /\ downloads = 0
           /\ upd_pc = "idle"
           /\ fs = fs0
           /\ host \in {"running", "exited"}

\* the fetch failed, the check thread ended and the host is still running
C15_Witness ==
    /\ HasEvent("fetch_failed")
    /\ chk_pc = "done"
    /\ host = "running"

(***************************************************************************)
(* Ordering and concurrency claims                                         *)
(***************************************************************************)
\* position of a recorded step in the sequence fetch, compare, decide,
\* download, verify, apply, restart; 0 for the reporting of an outcome
StepRank(e) ==
    CASE e \in {"fetch", "fetch_failed"} -> 1
      [] e = "compare" -> 2
      [] e \in {"schedule_prompt", "prompt", "proceed", "decline", "showinfo",
                "open_page"} -> 3
      [] e = "download" -> 4
      [] e = "verify" -> 5
      [] e \in {"backup", "write", "write_new", "remove_tmp"} -> 6
      [] e = "restart" -> 7
      [] OTHER -> 0

\* C17: the steps of an attempt happen in the order fetch, compare, decide,
\* download, verify, apply, restart, none of them twice; the download starts
\* only after a fetch, a comparison that found the remote newer and the
\* user's decision to proceed; the verification runs on a finished download;
\* nothing is written to disk before the download finished and the checksum
\* step passed; the restart is attempted only after the install was written.
C17_StepsInOrder ==
    /\ \A i, j \in 1..Len(hist) :
           (i < j /\ StepRank(hist[i].ev) > 0 /\ StepRank(hist[j].ev) > 0)
               => StepRank(hist[i].ev) <= StepRank(hist[j].ev)
    /\ \A E \in {{"fetch", "fetch_failed"}, {"compare"}, {"proceed", "decline"},
                 {"download"}, {"verify"}, {"restart"}} : CountEvents(E) <= 1
    /\ HasEvent("download")
           => HasEvent("fetch") /\ HasEvent("compare") /\ cmp_res < 0 /\ HasEvent("proceed")
    /\ HasEvent("verify") => HasEvent("download") /\ ~tmp.none
    /\ (fs # fs0 \/ HasEvent("backup") \/ HasEvent("write") \/ HasEvent("write_new"))
           => ~tmp.none /\ PassedGate
    /\ HasEvent("restart") => applied /\ InstallWritten

\* an archive went through every step and the process image was replaced
C17_Witness ==
    /\ ZipBranch
    /\ HasEvent("restart")
    /\ host = "restarted"
    /\ expected_sha.k = "str"

\* C18 (as stated): once the download has begun nothing stops the worker
\* before it reaches a terminal state, not even the end of the host's
\* interactive loop.
C18_WorkerRunsToTerminal == upd_pc # "killed"

\* C19: at most one update attempt per process: one fetch, at most one prompt
\* scheduled and shown, at most one decision, at most one worker thread ever
\* started (so never two at the same time), at most one download.
C19_AtMostOneAttempt ==
    /\ CountEvents({"fetch", "fetch_failed"}) <= 1
    /\ CountEvents({"schedule_prompt"}) <= 1
    /\ CountEvents({"prompt"}) <= 1
    /\ CountEvents({"proceed", "decline"}) <= 1
    /\ workers <= 1
    /\ downloads <= 1
    /\ CountEvents({"download"}) <= 1

\* the one attempt ran to its end with the host still running
C19_Witness ==
    /\ workers = 1
    /\ downloads = 1
    /\ upd_pc = "done"
    /\ chk_pc = "done"
    /\ after_q = <<>>
    /\ host = "running"

BlockingSteps == {"fetch", "fetch_failed", "download", "verify", "backup", "write",
                  "write_new"}

\* C20: every prompt and every notification ran on the interactive thread,
\* and the decision prompt and the error notifications only after having been
\* scheduled with root.after; the fetch, the download, the checksum, the
\* backups and the extraction or copy ran on a background thread only.
C20_ThreadConfinement ==
    \A i \in 1..Len(hist) :
        /\ hist[i].ev \in {"prompt", "showerror", "showinfo", "open_page"}
               => hist[i].th = MainThread
        /\ hist[i].ev = "prompt"
               => \E j \in 1..(i - 1) : hist[j].ev = "schedule_prompt"
        /\ hist[i].ev = "showerror"
               => CountEvents({"showerror"}) <= CountEvents({"schedule_error"})
        /\ hist[i].ev \in BlockingSteps => hist[i].th # MainThread

\* a download failed on the worker and its error was shown on the host
C20_Witness ==
    /\ HasEvent("download")
    /\ HasEvent("showerror")
    /\ "download_failed" \in shown

(***************************************************************************)
(* Specification of the comparator alone: any two version strings.         *)
(***************************************************************************)
CmpInit ==
    /\ cmp_a \in VersionStrings
    /\ cmp_b \in VersionStrings
    /\ cmp_done = FALSE
    /\ cmp_res = 0
    /\ AUTO_APPLY_UPDATE = FALSE
    /\ sys_executable = "/usr/bin/python"
    /\ sys_argv0 = "/inst/main.py"
    /\ fs = [p \in AllPaths |-> IF p = "/inst/main.py" THEN "old_main" ELSE ABSENT]
    /\ fs0 = fs
    /\ ThreadsInit
    /\ response = AnyResponse

CmpCall ==
    /\ ~cmp_done
    /\ cmp_res' = _compare_versions(cmp_a, cmp_b)
    /\ cmp_done' = TRUE
    /\ UNCHANGED <<cmp_a, cmp_b, cfgvars, fs, fs0, uivars, chkvars, updvars, hist>>

CmpNext == CmpCall

SpecCmp == CmpInit /\ [][CmpNext]_vars

(***************************************************************************)
(* Specification of the check thread alone, for each answer of the         *)
(* endpoint: the fetch, then the normalisation of the notifier.            *)
(***************************************************************************)
NormInit ==
    /\ CmpIdle
    /\ AUTO_APPLY_UPDATE = FALSE
    /\ sys_executable = "/usr/bin/python"
    /\ sys_argv0 = "/inst/main.py"
    /\ fs = [p \in AllPaths |-> IF p = "/inst/main.py" THEN "old_main" ELSE ABSENT]
    /\ fs0 = fs
    /\ ThreadsInit
    /\ response \in Responses

NormNext == Fetch \/ CheckNotify

SpecNorm == NormInit /\ [][NormNext]_vars

(***************************************************************************)
(* Normalisation claims                                                    *)
(***************************************************************************)
VersionAliases == {"version", "ver", "v", "release"}

FieldOf(d, k) ==
    CASE k = "version" -> d.version
      [] k = "ver" -> d.ver
      [] k = "v" -> d.v
      [] k = "release" -> d.release

\* the JSON scalar a manifest carries as its version, whatever its shape
CarriedScalar(resp) ==
    CASE resp.kind \in {"scalar", "list_scalar"} -> resp.scalar
      [] resp.kind \in {"dict", "list_dict"} ->
            IF \E k \in VersionAliases : HasKey(resp.dict, k)
            THEN FieldOf(resp.dict, CHOOSE k \in VersionAliases : HasKey(resp.dict, k))
            ELSE JMissing
      [] OTHER -> JMissing

\* an empty object, an empty list, an object with no version key, a body that
\* is not JSON
CarriesNoVersion(resp) ==
    \/ resp.kind \in {"badjson", "list_empty"}
    \/ /\ resp.kind \in {"dict", "list_dict"}
       /\ \A k \in VersionAliases : ~HasKey(resp.dict, k)

\* C16: after the fetch and the normalisation of the notifier, a version given
\* as a bare string or number, under any of the keys version, ver, v, release
\* of an object, or as the first element of a list (scalar or such an object)
\* is resolved to one and the same string: the string itself, or str() of the
\* number; an empty object, an empty list, an object without a version key and
\* an unparsable body schedule no prompt.
C16_ManifestNormalization ==
    chk_pc = "done"
        => /\ CarriedScalar(response).t = "str"
                => remote_ver = CarriedScalar(response).s
           /\ CarriedScalar(response).t = "num"
                => remote_ver = PyStr(CarriedScalar(response))
           /\ CarriesNoVersion(response)
                => /\ after_q = <<>>
                   /\ ~HasEvent("schedule_prompt")
                   /\ ~cmp_done

\* a list whose first element is an object with the version under "release"
C16_Witness ==
    /\ chk_pc = "done"
    /\ response.kind = "list_dict"
    /\ HasKey(response.dict, "release")
    /\ response.dict.release.t = "str"
    /\ remote_ver = << <<"2">>, <<"1">> >>
    /\ SeqHas(after_q, "ask_user")

(***************************************************************************)
(* Comparator claims                                                       *)
(***************************************************************************)
NoDigitSeg(v) == \A i \in 1..Len(v) : ~IsDigit(v[i])

AllDecimal(v) == \A i \in 1..Len(v) : Len(v[i]) > 0 /\ IntParses(v[i])

\* i-th integer segment of v, zero beyond its end
SegAt(v, i) == IF i <= Len(v) THEN IntOf(v[i]) ELSE 0

\* lexicographic order of the zero-padded integer sequences
LexOrder(a, b) ==
    LET n    == Max(Len(a), Len(b))
        diff == { i \in 1..n : SegAt(a, i) # SegAt(b, i) }
    IN  IF diff = {} THEN 0
        ELSE LET k == CHOOSE i \in diff : \A j \in diff : i <= j
             IN  IF SegAt(a, k) < SegAt(b, k) THEN -1 ELSE 1

\* C6 (as stated): for two version strings without any numeric segment,
\* compare returns equal when the raw strings are identical and less when
\* they differ.
C6_UnparsableEqualOrLess ==
    (cmp_done /\ NoDigitSeg(cmp_a) /\ NoDigitSeg(cmp_b))
        => cmp_res = (IF cmp_a = cmp_b THEN 0 ELSE -1)

\* C7: for version strings made of numeric segments, compare is the
\* lexicographic order of the zero-padded integer sequences, and
\* compare(a, b) is the negation of compare(b, a).
C7_NumericLexOrder ==
    (cmp_done /\ AllDecimal(cmp_a) /\ AllDecimal(cmp_b))
        => /\ cmp_res = LexOrder(cmp_a, cmp_b)
           /\ cmp_res = 0 - _compare_versions(cmp_b, cmp_a)

\* compare("2", "1.10") has run: the shorter side was padded and 2 > 1 decided
C7_Witness ==
    /\ cmp_done
    /\ cmp_a = << <<"2">> >>
    /\ cmp_b = << <<"1">>, <<"1", "0">> >>
    /\ cmp_res = 1

====
